---- MODULE Spec2Model ----
(***************************************************************************)
(* A model of range_repair.py: the status journal (RepairStatus), the      *)
(* driver (repair), the worker pool tasks (repair_range / _repair_range)   *)
(* and the journal file as written by RepairStatus.write.                  *)
(*                                                                         *)
(* The RepairStatus object lives in a manager process; the driver and each *)
(* pool worker call it through a proxy, and the manager serves every       *)
(* caller on a thread of its own.  A caller is therefore a thread of       *)
(* control in the journal: Driver or one of Workers.                       *)
(*                                                                         *)
(* Spec is a fresh run, SpecResume a run started with --resume on a        *)
(* journal file an earlier run left, SpecRetry one call of                 *)
(* ExponentialBackoffRetryer with a recording sleeper, SpecGen one         *)
(* sub_range_generator of a TokenContainer.  SpecPool is a fresh run with a *)
(* pool smaller than the set of process numbers, SpecOnce a fresh run with *)
(* --max-tries 1, SpecWrap the generator on a range that wraps around the  *)
(* ring, SpecLookup one call of get_preceding_token, SpecKey one call of   *)
(* create_key, SpecMain the program from main to the first dispatch.       *)
(* SpecRuns is a run without exclusions that is fresh or resumed,          *)
(* SpecExclude a fresh run with an --exclude-step record for its node.     *)
(***************************************************************************)
EXTENDS Integers, Sequences, FiniteSets, TLC

\* ---------------------------------------------------------------- bounds
NumSlices == 2          \* slices the generator hands to the driver
NumWorkers == 2         \* options.workers
MaxTries == 2           \* options.max_tries
Steps == 1              \* options.steps: slices per host token

\* ------------------------------------------------------- fixed options

\* Python values that are compared or converted in the code: None, a string
\* (a sequence of pieces, '' being the empty one) and a list of strings.
PyNone == [none |-> TRUE]
PyStr(s) == [str |-> <<s>>]
PyList(l) == [list |-> l]
IsNone(v) == "none" \in DOMAIN v
IsStr(v) == "str" \in DOMAIN v
IsList(v) == "list" \in DOMAIN v
\* bool(v)
Truthy(v) == IF IsNone(v) THEN FALSE ELSE IF IsStr(v) THEN v.str # <<>> ELSE v.list # <<>>
\* repr(v): a string in quotes
str_repr(v) ==
    IF IsNone(v) THEN PyStr("None")
    ELSE IF IsStr(v) THEN [str |-> <<"'">> \o v.str \o <<"'">>]
    ELSE [str |-> <<"[">> \o v.list \o <<"]">>]
\* str(v)
str(v) ==
    IF IsNone(v) THEN PyStr("None")
    ELSE IF IsStr(v) THEN v
    ELSE [str |-> <<"[">> \o v.list \o <<"]">>]

OptKeyspace == PyNone             \* options.keyspace with no -k given
OptColumnFamily == PyList(<<>>)   \* options.columnfamily default []

\* None in a field that otherwise holds a number (timestamps, steps): the
\* clock starts at 1.  NoFile is the unset filename, NoDoc the absent document.
None == 0
NoFile == ""
NoDoc == [none |-> TRUE]
Unlocked == -1
Running == -1
Driver == 0
Workers == 1..NumWorkers
Callers == {Driver} \cup Workers
Slices == 1..NumSlices

HostTokenCount == (NumSlices + Steps - 1) \div Steps

\* The (start, end, step, nodeposition) arguments the driver submits for
\* the s-th slice: Steps slices per host token, steps numbered from 1.
SliceArgs(s) ==
    [start        |-> s - 1,
     end          |-> s,
     step         |-> ((s - 1) % Steps) + 1,
     nodeposition |-> <<((s - 1) \div Steps) + 1, HostTokenCount>>]

\* create_key: '{0}_{1}_{2}_{3}_{4}_{5}', the six fields kept apart as a tuple.
create_key(step, start, end, nodeposition, keyspace, column_families) ==
    LET ks == IF Truthy(str(keyspace)) THEN str(keyspace) ELSE PyStr("<all>")
        cf == IF (IsList(column_families) /\ column_families.list = <<>>)
                 \/ ~Truthy(column_families)
              THEN PyStr("<all>") ELSE str(column_families)
    IN  <<step, start, end, nodeposition, ks, cf>>

\* _build_repair_dict, without its 'time' entry (no claim reads it and the
\* buckets compare by the remaining entries).
_build_repair_dict(cmd, step, start, end, nodeposition, keyspace, column_families) ==
    [step            |-> step,
     start           |-> start,
     end             |-> end,
     nodeposition    |-> nodeposition,
     keyspace        |-> IF Truthy(keyspace) THEN keyspace ELSE PyStr("<all>"),
     column_families |-> IF Truthy(column_families) THEN column_families ELSE PyStr("<all>"),
     cmd             |-> cmd]

\* cmd_str of _repair_range with the default flavour flags (no -full, no
\* keyspace, no column family, -pr, no -par/-inc/-snapshot).
CmdStr(start, end) == <<"nodetool", "repair", "-pr", "-st", start, "-et", end>>

\* The key the worker side (repair_start, repair_success, repair_fail) computes.
WorkerKey(s) ==
    LET a == SliceArgs(s)
    IN  create_key(a.step, a.start, a.end, a.nodeposition, OptKeyspace, OptColumnFamily)

\* The column_families string and the key the driver primes pending with.
DriverColumnFamilies ==
    IF Truthy(OptColumnFamily) THEN str(OptColumnFamily) ELSE PyStr("<all>")
DriverKey(s) ==
    LET a == SliceArgs(s)
    IN  create_key(a.step, a.start, a.end, a.nodeposition, str(OptKeyspace), DriverColumnFamilies)

\* is_excluded: the first record whose node is the slice's node evaluates
\* options.exclude_step['step'] on a list, which raises TypeError; with no
\* such record the loop ends and (0, None) is returned.
is_excluded(excl, nodeposition) ==
    IF \E i \in 1..Len(excl) : excl[i].node = nodeposition[1]
    THEN "TypeError" ELSE "0"

\* dict helpers
Put(d, k, v) == [x \in (DOMAIN d) \cup {k} |-> IF x = k THEN v ELSE d[x]]
\* a del that leaves the key in the dict
Del_keeps(d, k) == d
Del(d, k) == [x \in (DOMAIN d) \ {k} |-> d[x]]
EmptyDict == [x \in {} |-> 0]

VARIABLES
    \* options
    dry_run, exclude_step, max_tries,
    \* RepairStatus fields
    filename, steps, started, updated, finished, last_resumed_at,
    successful_count, failed_count,
    failed_repairs, current_repairs, finished_repairs, pending_repairs,
    \* the journal file (content: absent, empty, partial or whole; doc: the
    \* document stored) and write_status_lock
    file, write_status_lock,
    \* per caller: position in the code, position inside write(), json_status
    pc, wpc, json_status,
    \* driver: loop indices of the submit loop and of the r.get() loop, exit code
    di, dj, exit_code,
    \* pool: task queue, task of each worker, result of each task, loop index
    \* of the retryer
    queue, task, result, tries,
    \* datetime.now()
    now,
    \* resumed run: the keys the loop over gp() iterates, and the slices of
    \* the tasks behind all_results
    resume_keys, all_results,
    \* ExponentialBackoffRetryer.__call__ with a recording sleeper: config, the
    \* number of leading failures of the executor, position in the call, the
    \* locals next_sleep, i and result, the invocations of the executor so far
    \* and the arguments the sleeper got
    config, nfails, rpc, next_sleep, retry_i, retry_result, executions, sleeps,
    \* TokenContainer: the class attributes RANGE_MIN, RANGE_MAX and
    \* FORMAT_TEMPLATE (tc); one sub_range_generator: its arguments, position,
    \* the locals step and step_list, and the triples it has yielded
    tc, gen_args, gpc, step, step_list, yielded,
    \* one call of get_preceding_token: the sorted ring, the argument, the
    \* value returned and the position of the call
    ring_tokens, token, preceding, ppc,
    \* one call of create_key: its arguments, the key returned and the
    \* position of the call
    key_args, key, kpc,
    \* the key the driver primes pending with for the same slice and options
    pending_key,
    \* main: the parsed command line, the position of main and of the
    \* TokenContainer constructor, and the admin commands run so far
    opts, mpc, commands

options == <<dry_run, exclude_step, max_tries>>
counters == <<successful_count, failed_count>>
buckets == <<failed_repairs, current_repairs, finished_repairs, pending_repairs>>
stamps == <<started, updated, finished, last_resumed_at>>
journal == <<filename, steps, stamps, counters, buckets>>
pool == <<queue, task, result, tries>>
driver == <<di, dj, exit_code>>
resumed == <<resume_keys, all_results>>
\* What a fresh run and the pool workers never change.
retryer == <<config, nfails, rpc, next_sleep, retry_i, retry_result, executions, sleeps>>
generator == <<tc, gen_args, gpc, step, step_list, yielded>>
lookup == <<ring_tokens, token, preceding, ppc>>
keying == <<key_args, key, kpc, pending_key>>
startup == <<opts, mpc, commands>>
units == <<lookup, keying, startup>>
rest == <<resumed, retryer, generator, units>>
\* What the retryer on its own never changes.
run == <<options, journal, file, write_status_lock, pc, wpc, json_status,
         driver, pool, now, resumed>>
vars == <<options, journal, file, write_status_lock, pc, wpc, json_status,
          driver, pool, now, rest>>

\* The document json.dumps builds in write().
Doc ==
    [started          |-> started,
     updated          |-> updated,
     finished         |-> finished,
     failed_repairs   |-> failed_repairs,
     pending_repairs  |-> pending_repairs,
     current_repairs  |-> current_repairs,
     finished_repairs |-> finished_repairs,
     successful_count |-> successful_count,
     failed_count     |-> failed_count,
     steps            |-> steps,
     last_resumed_at  |-> last_resumed_at]

\* Exclusion option values: none, or one record naming the last host token
\* (--exclude-step node,step).
ExcludeRecord(n) == [keyspace |-> PyNone, column_family |-> PyNone, node |-> n, step |-> 1]
ExcludeChoices == {<<>>, <<ExcludeRecord(HostTokenCount)>>}

\* No retryer under observation.
NoResult == [ok |-> FALSE, n |-> 0]
RetryerOff ==
    /\ config = [max_tries |-> 1, initial_sleep |-> 1, sleep_factor |-> 1, max_sleep |-> 0]
    /\ nfails = 0 /\ rpc = "off"
    /\ next_sleep = 0 /\ retry_i = 0 /\ retry_result = NoResult
    /\ executions = 0 /\ sleeps = <<>>

\* The ring is scaled: 2^RingBits tokens stand for the 2^64 of the Murmur3
\* partitioner and for the 2^127 of the Random partitioner.
RingBits == 4
Murmur3 ==
    [RANGE_MIN |-> -(2^(RingBits - 1)), RANGE_MAX |-> 2^(RingBits - 1) - 1,
     FORMAT_TEMPLATE |-> [plus |-> TRUE, width |-> 21]]
Random ==
    [RANGE_MIN |-> 0, RANGE_MAX |-> 2^RingBits - 1,
     FORMAT_TEMPLATE |-> [plus |-> FALSE, width |-> 39]]
\* step_list before its first assignment.
Unbound == [bound |-> FALSE, items |-> <<>>]
\* No generator under observation.
GeneratorOff ==
    /\ tc = Murmur3
    /\ gen_args = [start |-> 0, stop |-> 0, steps |-> 1]
    /\ gpc = "off" /\ step = 0 /\ step_list = Unbound /\ yielded = <<>>

\* No call of get_preceding_token or create_key under observation, and main
\* is past TokenContainer(options).
NoKey == <<0, 0, 0, <<0, 0>>, PyNone, PyNone>>
LookupOff == ring_tokens = <<>> /\ token = 0 /\ preceding = 0 /\ ppc = "off"
KeyingOff ==
    /\ key_args = [step |-> 0, start |-> 0, end |-> 0, nodeposition |-> <<0, 0>>,
                   keyspace |-> PyNone, column_families |-> PyNone]
    /\ key = NoKey /\ kpc = "off" /\ pending_key = NoKey
StartupOff ==
    /\ opts = [keyspace |-> PyNone, columnfamily |-> PyList(<<>>), args |-> <<>>,
               resume |-> FALSE, output_status |-> PyStr("status.json"),
               datacenter |-> PyNone]
    /\ mpc = "repair" /\ commands = <<>>
UnitsOff == LookupOff /\ KeyingOff /\ StartupOff

\* State after RepairStatus.__init__, with the pool and the manager created.
Init ==
    /\ dry_run \in BOOLEAN
    /\ exclude_step \in ExcludeChoices
    /\ max_tries = MaxTries
    /\ filename = NoFile /\ steps = None
    /\ started = None /\ updated = None /\ finished = None /\ last_resumed_at = None
    /\ successful_count = 0 /\ failed_count = 0
    /\ failed_repairs = EmptyDict /\ current_repairs = EmptyDict
    /\ finished_repairs = EmptyDict /\ pending_repairs = EmptyDict
    /\ file = [content |-> "absent", doc |-> NoDoc]
    /\ write_status_lock = Unlocked
    /\ pc = [c \in Callers |-> IF c = Driver THEN "start" ELSE "idle"]
    /\ wpc = [c \in Callers |-> "idle"]
    /\ json_status = [c \in Callers |-> NoDoc]
    /\ di = 1 /\ dj = 1 /\ exit_code = Running
    /\ queue = <<>>
    /\ task = [w \in Workers |-> 0]
    /\ result = [s \in Slices |-> "none"]
    /\ tries = [w \in Workers |-> 0]
    /\ now = 1
    /\ resume_keys = <<>> /\ all_results = <<>>
    /\ RetryerOff /\ GeneratorOff /\ UnitsOff

\* The pool workers and the manager live until the driver process exits.
Alive == pc[Driver] # "exited"

\* The pool worker stores the outcome of its task (the return value or the
\* exception) and is idle again.
EndTask(w, r) ==
    /\ result' = [result EXCEPT ![task[w]] = r]
    /\ task' = [task EXCEPT ![w] = 0]
    /\ pc' = [pc EXCEPT ![w] = "idle"]

\* ------------------------------------------------------ RepairStatus.write
\* json.dumps of the fields, taken before the lock is requested.
Dumps(c) ==
    /\ Alive /\ wpc[c] = "dumps"
    /\ json_status' = [json_status EXCEPT ![c] = Doc]
    /\ wpc' = [wpc EXCEPT ![c] = "lock"]
    /\ UNCHANGED <<rest, options, journal, file, write_status_lock, pc, driver, pool, now>>

\* Where a caller continues when write() returns.
Cont(p) ==
    CASE p = "in_start" -> "submit"
      [] p = "in_finish" -> "return"
      [] p = "in_repair_start" -> "retry"
      [] p = "in_resume" -> "gp"
      [] OTHER -> p

\* with write_status_lock: updated = now(); open(filename, 'w') truncates.
AcquireOpen(c) ==
    /\ Alive /\ wpc[c] = "lock" /\ write_status_lock = Unlocked
    /\ filename # NoFile
    /\ write_status_lock' = c
    /\ updated' = now
    /\ now' = now + 1
    /\ file' = [content |-> "empty", doc |-> NoDoc]
    /\ wpc' = [wpc EXCEPT ![c] = "write"]
    /\ UNCHANGED <<rest, options, filename, steps, started, finished, last_resumed_at,
                   counters, buckets, pc, json_status, driver, pool>>

\* file.write(json_status) goes to the buffer of the file object; when the
\* buffer fills before close(), a prefix of the document is on disk.
FileWrite(c) ==
    /\ Alive /\ wpc[c] = "write" /\ write_status_lock = c
    /\ file.content = "empty"
    /\ file' = [content |-> "partial", doc |-> json_status[c]]
    /\ UNCHANGED <<rest, options, journal, write_status_lock, pc, wpc, json_status, driver, pool, now>>

\* file.close() puts the whole document on disk; os.chmod; the lock is
\* released and write() returns to the caller.  A returning repair_success
\* ends the task normally.
FileClose(c) ==
    /\ Alive /\ wpc[c] = "write" /\ write_status_lock = c
    /\ file' = [content |-> "whole", doc |-> json_status[c]]
    /\ write_status_lock' = Unlocked
    /\ wpc' = [wpc EXCEPT ![c] = "idle"]
    /\ IF pc[c] = "in_repair_success"
       THEN EndTask(c, "ok")
       ELSE /\ pc' = [pc EXCEPT ![c] = Cont(pc[c])]
            /\ UNCHANGED <<result, task>>
    /\ json_status' = [json_status EXCEPT ![c] = NoDoc]
    /\ UNCHANGED <<rest, options, journal, driver, queue, tries, now>>

\* ------------------------------------------------------------ the driver
\* RepairStatus.start: filename, steps, reset(), started, then write().  The
\* run is one with --output-status, so the journal has a file.
Start ==
    /\ pc[Driver] = "start"
    /\ filename' = "status.json"
    /\ steps' = Steps
    /\ updated' = None /\ finished' = None /\ last_resumed_at' = None
    /\ failed_repairs' = EmptyDict /\ current_repairs' = EmptyDict
    /\ finished_repairs' = EmptyDict /\ pending_repairs' = EmptyDict
    /\ failed_count' = 0 /\ successful_count' = 0
    /\ started' = now
    /\ now' = now + 1
    /\ pc' = [pc EXCEPT ![Driver] = "in_start"]
    /\ wpc' = [wpc EXCEPT ![Driver] = "dumps"]
    /\ UNCHANGED <<rest, options, file, write_status_lock, json_status, driver, pool>>

\* worker_pool.apply_async(repair_range, args) for the slice the generator
\* yields next.
Submit ==
    /\ pc[Driver] = "submit"
    /\ queue' = Append(queue, di)
    /\ pc' = [pc EXCEPT ![Driver] = "prime"]
    /\ UNCHANGED <<rest, options, journal, file, write_status_lock, wpc, json_status,
                   driver, task, result, tries, now>>

\* add_pending_repair(k, p): pending_repairs[k] = p, no write.
add_pending_repair(k, p) == pending_repairs' = Put(pending_repairs, k, p)

\* The rest of the loop body of repair(): build the key and the record and
\* prime pending with them; then the next slice, or the r.get() loop.
AddPending ==
    /\ pc[Driver] = "prime"
    /\ LET a == SliceArgs(di)
           p == _build_repair_dict(<<>>, a.step, a.start, a.end, a.nodeposition,
                                   str(OptKeyspace), DriverColumnFamilies)
       IN  add_pending_repair(DriverKey(di), p)
    /\ di' = di + 1
    /\ pc' = [pc EXCEPT ![Driver] = IF di = NumSlices THEN "get" ELSE "submit"]
    /\ UNCHANGED <<rest, options, filename, steps, stamps, counters,
                   failed_repairs, current_repairs, finished_repairs,
                   file, write_status_lock, wpc, json_status, dj, exit_code, pool, now>>

\* A loop over all_results that is left after the first result.
Get_first ==
    /\ pc[Driver] = "get"
    /\ result[dj] # "none"
    /\ IF result[dj] = "ok"
       THEN /\ dj' = dj + 1
            /\ pc' = [pc EXCEPT ![Driver] = "finish"]
       ELSE /\ dj' = dj
            /\ pc' = [pc EXCEPT ![Driver] = "raised"]
    /\ UNCHANGED <<rest, options, journal, file, write_status_lock, wpc, json_status,
                   di, exit_code, pool, now>>

\* r.get() on the dj-th result: blocks until the task has ended, returns its
\* value or raises the exception the task ended with.
Get ==
    /\ pc[Driver] = "get"
    /\ result[dj] # "none"
    /\ IF result[dj] = "ok"
       THEN /\ dj' = dj + 1
            /\ pc' = [pc EXCEPT ![Driver] = IF dj = NumSlices THEN "finish" ELSE "get"]
       ELSE /\ dj' = dj
            /\ pc' = [pc EXCEPT ![Driver] = "raised"]
    /\ UNCHANGED <<rest, options, journal, file, write_status_lock, wpc, json_status,
                   di, exit_code, pool, now>>

\* RepairStatus.finish: finished = now(), then write().
Finish ==
    /\ pc[Driver] = "finish"
    /\ finished' = now
    /\ now' = now + 1
    /\ pc' = [pc EXCEPT ![Driver] = "in_finish"]
    /\ wpc' = [wpc EXCEPT ![Driver] = "dumps"]
    /\ UNCHANGED <<rest, options, filename, steps, started, updated, last_resumed_at,
                   counters, buckets, file, write_status_lock, json_status, driver, pool>>

\* main: exit(0) after repair() returned; an exception out of repair() ends
\* the interpreter with status 1.  Either way the pool and the manager go.
Exit ==
    /\ pc[Driver] \in {"return", "raised"}
    /\ exit_code' = IF pc[Driver] = "return" THEN 0 ELSE 1
    /\ pc' = [pc EXCEPT ![Driver] = "exited"]
    /\ UNCHANGED <<rest, options, journal, file, write_status_lock, wpc, json_status,
                   di, dj, pool, now>>

\* ------------------------------------------------------- the pool workers
\* An idle pool worker takes the oldest queued task.  The pool processes are
\* interchangeable, so the idle worker with the lowest number stands for
\* whichever of them gets the task.
Take(w) ==
    /\ Alive /\ pc[w] = "idle" /\ queue # <<>>
    /\ \A v \in Workers : v < w => pc[v] # "idle"
    /\ task' = [task EXCEPT ![w] = Head(queue)]
    /\ queue' = Tail(queue)
    /\ pc' = [pc EXCEPT ![w] = "repair_range"]
    /\ UNCHANGED <<rest, options, journal, file, write_status_lock, wpc, json_status,
                   driver, result, tries, now>>

\* repair_start as section 4.5 words it: the key moves from pending to current.
repair_start_moves(k, rec) ==
    /\ current_repairs' = Put(current_repairs, k, rec)
    /\ pending_repairs' = Del(pending_repairs, k)
    /\ UNCHANGED <<failed_repairs, finished_repairs>>

\* repair_start: current_repairs[k] = record; pending_repairs is not touched.
repair_start(k, rec) ==
    /\ current_repairs' = Put(current_repairs, k, rec)
    /\ UNCHANGED <<failed_repairs, finished_repairs, pending_repairs>>

\* repair_range up to the journal call of _repair_range: the exclusion test
\* (which raises when a record names the slice's node), then repair_start.
RepairRange(w) ==
    /\ Alive /\ pc[w] = "repair_range"
    /\ LET a == SliceArgs(task[w])
       IN  IF exclude_step # <<>> /\ is_excluded(exclude_step, a.nodeposition) = "TypeError"
           THEN /\ EndTask(w, "TypeError")
                /\ UNCHANGED <<buckets, wpc>>
           ELSE /\ repair_start(WorkerKey(task[w]),
                                _build_repair_dict(CmdStr(a.start, a.end), a.step, a.start,
                                                   a.end, a.nodeposition, OptKeyspace,
                                                   OptColumnFamily))
                /\ pc' = [pc EXCEPT ![w] = "in_repair_start"]
                /\ wpc' = [wpc EXCEPT ![w] = "dumps"]
                /\ UNCHANGED <<result, task>>
    /\ UNCHANGED <<rest, options, filename, steps, stamps, counters, file, write_status_lock,
                   json_status, driver, queue, tries, now>>

\* --dry-run: no command is run, success = True.
DryRun(w) ==
    /\ Alive /\ pc[w] = "retry" /\ wpc[w] = "idle" /\ dry_run
    /\ pc' = [pc EXCEPT ![w] = "repair_success"]
    /\ UNCHANGED <<rest, options, journal, file, write_status_lock, wpc, json_status,
                   driver, pool, now>>

\* One iteration of ExponentialBackoffRetryer.__call__ around run_command:
\* run the command; return on success; otherwise sleep and go round again,
\* or give up on the last iteration.
RunCommand(w) ==
    /\ Alive /\ pc[w] = "retry" /\ wpc[w] = "idle" /\ ~dry_run
    /\ \E success \in BOOLEAN :
          IF success
          THEN /\ pc' = [pc EXCEPT ![w] = "repair_success"]
               /\ tries' = [tries EXCEPT ![w] = 0]
          ELSE IF tries[w] = max_tries - 1
          THEN /\ pc' = [pc EXCEPT ![w] = "repair_fail"]
               /\ tries' = [tries EXCEPT ![w] = 0]
          ELSE /\ pc' = pc
               /\ tries' = [tries EXCEPT ![w] = @ + 1]
    /\ UNCHANGED <<rest, options, journal, file, write_status_lock, wpc, json_status,
                   driver, queue, task, result, now>>

\* repair_success up to write(): finished[k] = current[k]; del current[k];
\* del pending[k]; successful_count += 1.  A missing key raises KeyError at
\* the statement that needs it and the task ends with that exception.
RepairSuccess(w) ==
    /\ Alive /\ pc[w] = "repair_success"
    /\ LET k == WorkerKey(task[w])
       IN  IF k \notin DOMAIN current_repairs
           THEN /\ EndTask(w, "KeyError")
                /\ UNCHANGED <<buckets, counters, wpc>>
           ELSE /\ finished_repairs' = Put(finished_repairs, k, current_repairs[k])
                /\ current_repairs' = Del(current_repairs, k)
                /\ UNCHANGED <<failed_repairs, failed_count>>
                /\ IF k \notin DOMAIN pending_repairs
                   THEN /\ EndTask(w, "KeyError")
                        /\ UNCHANGED <<pending_repairs, successful_count, wpc>>
                   ELSE /\ pending_repairs' = Del(pending_repairs, k)
                        /\ successful_count' = successful_count + 1
                        /\ pc' = [pc EXCEPT ![w] = "in_repair_success"]
                        /\ wpc' = [wpc EXCEPT ![w] = "dumps"]
                        /\ UNCHANGED <<result, task>>
    /\ UNCHANGED <<rest, options, filename, steps, stamps, file, write_status_lock,
                   json_status, driver, queue, tries, now>>

\* repair_fail: current[k] = record; failed[k] = current[k]; del current[k];
\* del pending[k] (KeyError when missing); then failed_repairs.append, which
\* a dict does not have: AttributeError.  The increment of failed_count and
\* write() behind it are never reached.
RepairFail(w) ==
    /\ Alive /\ pc[w] = "repair_fail"
    /\ LET k == WorkerKey(task[w])
           a == SliceArgs(task[w])
           rec == _build_repair_dict(CmdStr(a.start, a.end), a.step, a.start, a.end,
                                     a.nodeposition, OptKeyspace, OptColumnFamily)
       IN  /\ failed_repairs' = Put(failed_repairs, k, rec)
           /\ current_repairs' = Del(Put(current_repairs, k, rec), k)
           /\ IF k \notin DOMAIN pending_repairs
              THEN /\ pending_repairs' = pending_repairs
                   /\ EndTask(w, "KeyError")
              ELSE /\ pending_repairs' = Del(pending_repairs, k)
                   /\ EndTask(w, "AttributeError")
    /\ UNCHANGED <<rest, options, filename, steps, stamps, counters, finished_repairs, file,
                   write_status_lock, wpc, json_status, driver, queue, tries,
                   now>>

Next ==
    \/ Start \/ Submit \/ AddPending \/ Get \/ Finish \/ Exit
    \/ \E w \in Workers : Take(w)
    \/ \E w \in Workers : RepairRange(w)
    \/ \E w \in Workers : DryRun(w)
    \/ \E w \in Workers : RunCommand(w)
    \/ \E w \in Workers : RepairSuccess(w)
    \/ \E w \in Workers : RepairFail(w)
    \/ \E c \in Callers : Dumps(c)
    \/ \E c \in Callers : AcquireOpen(c)
    \/ \E c \in Callers : FileWrite(c)
    \/ \E c \in Callers : FileClose(c)

Spec == Init /\ [][Next]_vars

TypeOK ==
    /\ successful_count \in 0..NumSlices
    /\ failed_count \in 0..NumSlices
    /\ write_status_lock \in Callers \cup {Unlocked}
    /\ file.content \in {"absent", "empty", "partial", "whole"}

\* A fresh run whose pool is smaller than the set of process numbers:
\* Pool(options.workers) creates options.workers processes, the numbers above
\* it stand for no process (pc "none") and never take a task.
workers == Cardinality({w \in Workers : pc[w] # "none"})

InitPool ==
    /\ dry_run \in BOOLEAN
    /\ exclude_step \in ExcludeChoices
    /\ max_tries = MaxTries
    /\ filename = NoFile /\ steps = None
    /\ started = None /\ updated = None /\ finished = None /\ last_resumed_at = None
    /\ successful_count = 0 /\ failed_count = 0
    /\ failed_repairs = EmptyDict /\ current_repairs = EmptyDict
    /\ finished_repairs = EmptyDict /\ pending_repairs = EmptyDict
    /\ file = [content |-> "absent", doc |-> NoDoc]
    /\ write_status_lock = Unlocked
    /\ \E n \in 1..(NumWorkers - 1) :
          pc = [c \in Callers |-> IF c = Driver THEN "start"
                                  ELSE IF c <= n THEN "idle" ELSE "none"]
    /\ wpc = [c \in Callers |-> "idle"]
    /\ json_status = [c \in Callers |-> NoDoc]
    /\ di = 1 /\ dj = 1 /\ exit_code = Running
    /\ queue = <<>>
    /\ task = [w \in Workers |-> 0]
    /\ result = [s \in Slices |-> "none"]
    /\ tries = [w \in Workers |-> 0]
    /\ now = 1
    /\ resume_keys = <<>> /\ all_results = <<>>
    /\ RetryerOff /\ GeneratorOff /\ UnitsOff

SpecPool == InitPool /\ [][Next]_vars

\* A fresh run with --max-tries 1, without --dry-run and without exclusions:
\* every slice that reaches the retryer costs one CLI invocation.
InitOnce ==
    /\ dry_run = FALSE
    /\ exclude_step = <<>>
    /\ max_tries = 1
    /\ filename = NoFile /\ steps = None
    /\ started = None /\ updated = None /\ finished = None /\ last_resumed_at = None
    /\ successful_count = 0 /\ failed_count = 0
    /\ failed_repairs = EmptyDict /\ current_repairs = EmptyDict
    /\ finished_repairs = EmptyDict /\ pending_repairs = EmptyDict
    /\ file = [content |-> "absent", doc |-> NoDoc]
    /\ write_status_lock = Unlocked
    /\ pc = [c \in Callers |-> IF c = Driver THEN "start" ELSE "idle"]
    /\ wpc = [c \in Callers |-> "idle"]
    /\ json_status = [c \in Callers |-> NoDoc]
    /\ di = 1 /\ dj = 1 /\ exit_code = Running
    /\ queue = <<>>
    /\ task = [w \in Workers |-> 0]
    /\ result = [s \in Slices |-> "none"]
    /\ tries = [w \in Workers |-> 0]
    /\ now = 1
    /\ resume_keys = <<>> /\ all_results = <<>>
    /\ RetryerOff /\ GeneratorOff /\ UnitsOff

NextOnce ==
    \/ Start \/ Submit \/ AddPending \/ Get \/ Finish \/ Exit
    \/ \E w \in Workers : Take(w)
    \/ \E w \in Workers : RepairRange(w)
    \/ \E w \in Workers : RunCommand(w)
    \/ \E w \in Workers : RepairSuccess(w)
    \/ \E w \in Workers : RepairFail(w)
    \/ \E c \in Callers : Dumps(c)
    \/ \E c \in Callers : AcquireOpen(c)
    \/ \E c \in Callers : FileWrite(c)
    \/ \E c \in Callers : FileClose(c)

SpecOnce == InitOnce /\ [][NextOnce]_vars

\* ------------------------------------------------------- the resumed run
\* The record the driver primes pending with (repair(), fresh branch) and
\* the record repair_start puts in current for the s-th slice.
DriverRecord(s) ==
    LET a == SliceArgs(s)
    IN  _build_repair_dict(<<>>, a.step, a.start, a.end, a.nodeposition,
                           str(OptKeyspace), DriverColumnFamilies)
WorkerRecord(s) ==
    LET a == SliceArgs(s)
    IN  _build_repair_dict(CmdStr(a.start, a.end), a.step, a.start, a.end,
                           a.nodeposition, OptKeyspace, OptColumnFamily)

\* The dicts that hold, for the slices of S, the driver's record under the
\* driver's key and the worker's record under the worker's key.
PrimedDict(S) ==
    [k \in {DriverKey(s) : s \in S} |-> DriverRecord(CHOOSE s \in S : DriverKey(s) = k)]
StartedDict(S) ==
    [k \in {WorkerKey(s) : s \in S} |-> WorkerRecord(CHOOSE s \in S : WorkerKey(s) = k)]

\* A document write() of an earlier fresh run left in the file: pending,
\* current, finished and failed hold the slices of pend, cur, fin and fail,
\* count successes were counted, done tells whether finish() wrote it.  json
\* keeps strings, integers, null, lists and the order of the keys of a dict,
\* so json.load gives the fields back as json.dumps got them.
JournalDoc(pend, cur, fin, fail, count, done) ==
    [started          |-> 1,
     updated          |-> 2,
     finished         |-> IF done THEN 3 ELSE None,
     failed_repairs   |-> StartedDict(fail),
     pending_repairs  |-> PrimedDict(pend),
     current_repairs  |-> StartedDict(cur),
     finished_repairs |-> StartedDict(fin),
     successful_count |-> count,
     failed_count     |-> 0,
     steps            |-> Steps,
     last_resumed_at  |-> None]

\* Journals a fresh run over these slices leaves behind.  Completed: the run
\* ended with finish().  The others are of a run that was terminated, or
\* ended by an exception, when the slices before n had succeeded:
\* InFlight(n), slice n started and the slices from n on primed;
\* Unprimed(n), slice n started before the driver primed it;
\* Raced(n), repair_success of slice n ran before the driver primed it (the
\* key went to finished uncounted, then to pending) and the next slice started;
\* Failed(n), repair_fail ran for slice n and the next slice started.
Next1(n) == {n + 1} \cap Slices
Completed == JournalDoc({}, {}, Slices, {}, NumSlices, TRUE)
InFlight(n) == JournalDoc(n..NumSlices, {n}, 1..(n - 1), {}, n - 1, FALSE)
Unprimed(n) == JournalDoc({}, {n}, 1..(n - 1), {}, n - 1, FALSE)
Raced(n) == JournalDoc({n} \cup Next1(n), Next1(n), 1..n, {}, n - 1, FALSE)
Failed(n) == JournalDoc(Next1(n), Next1(n), 1..(n - 1), {n}, n - 1, FALSE)
JournalDocs ==
    {Completed} \cup {InFlight(n) : n \in Slices} \cup {Unprimed(n) : n \in Slices}
    \cup {Raced(n) : n \in Slices} \cup {Failed(n) : n \in Slices}
\* The file --resume finds: one of the documents, or the empty file of a
\* write() that was cut short between open() and close().
JournalFiles ==
    {[content |-> "whole", doc |-> d] : d \in JournalDocs}
    \cup {[content |-> "empty", doc |-> NoDoc]}

\* State of a new process started with --resume: RepairStatus.__init__ has
\* run, the pool and the manager are created, the clock is past every stamp
\* in the file.
InitResume ==
    /\ dry_run \in BOOLEAN
    /\ exclude_step \in ExcludeChoices
    /\ max_tries = MaxTries
    /\ filename = NoFile /\ steps = None
    /\ started = None /\ updated = None /\ finished = None /\ last_resumed_at = None
    /\ successful_count = 0 /\ failed_count = 0
    /\ failed_repairs = EmptyDict /\ current_repairs = EmptyDict
    /\ finished_repairs = EmptyDict /\ pending_repairs = EmptyDict
    /\ file \in JournalFiles
    /\ write_status_lock = Unlocked
    /\ pc = [c \in Callers |-> IF c = Driver THEN "resume" ELSE "idle"]
    /\ wpc = [c \in Callers |-> "idle"]
    /\ json_status = [c \in Callers |-> NoDoc]
    /\ di = 1 /\ dj = 1 /\ exit_code = Running
    /\ queue = <<>>
    /\ task = [w \in Workers |-> 0]
    /\ result = [s \in Slices |-> "none"]
    /\ tries = [w \in Workers |-> 0]
    /\ now = 4
    /\ resume_keys = <<>> /\ all_results = <<>>
    /\ RetryerOff /\ GeneratorOff /\ UnitsOff

\* if status['finished']: the stamp is None or a non-empty string.
AlreadyFinished_never(status) == FALSE
AlreadyFinished(status) == status.finished # None

\* _from_output_status: the ten fields it takes from the loaded document.
_from_output_status(status) ==
    [started          |-> status.started,
     updated          |-> status.updated,
     finished         |-> status.finished,
     last_resumed_at  |-> status.last_resumed_at,
     failed_repairs   |-> status.failed_repairs,
     pending_repairs  |-> status.pending_repairs,
     current_repairs  |-> status.current_repairs,
     finished_repairs |-> status.finished_repairs,
     successful_count |-> status.successful_count,
     failed_count     |-> status.failed_count]

\* RepairStatus.resume up to write(): filename and steps from the options;
\* open and json.load (which raise on a file that holds no whole document);
\* the refusal of a finished journal; _from_output_status; last_resumed_at.
\* An exception goes through the proxy to repair() and out of it.
Resume ==
    /\ pc[Driver] = "resume"
    /\ filename' = "status.json"
    /\ steps' = Steps
    /\ IF file.content # "whole" \/ AlreadyFinished(file.doc)
       THEN /\ pc' = [pc EXCEPT ![Driver] = "raised"]
            /\ UNCHANGED <<stamps, counters, buckets, wpc, now>>
       ELSE LET j == _from_output_status(file.doc)
            IN  /\ started' = j.started
                /\ updated' = j.updated
                /\ finished' = j.finished
                /\ failed_repairs' = j.failed_repairs
                /\ pending_repairs' = j.pending_repairs
                /\ current_repairs' = j.current_repairs
                /\ finished_repairs' = j.finished_repairs
                /\ successful_count' = j.successful_count
                /\ failed_count' = j.failed_count
                /\ last_resumed_at' = now
                /\ now' = now + 1
                /\ pc' = [pc EXCEPT ![Driver] = "in_resume"]
                /\ wpc' = [wpc EXCEPT ![Driver] = "dumps"]
    /\ UNCHANGED <<options, file, write_status_lock, json_status, driver, pool, resumed,
                   retryer, generator, units>>

\* The keys of a dict in the order a loop over it visits them: the order of
\* insertion, which for pending is the order of the slices.
gp_keys(d) ==
    LET InDict(k) == k \in DOMAIN d
    IN  SelectSeq([s \in 1..NumSlices |-> DriverKey(s)], InDict)

\* for g in repair_status.gp(): the proxy call returns the keys to visit.
GetPending ==
    /\ pc[Driver] = "gp"
    /\ resume_keys' = gp_keys(pending_repairs)
    /\ pc' = [pc EXCEPT ![Driver] = IF gp_keys(pending_repairs) = <<>> THEN "finish"
                                    ELSE "resubmit"]
    /\ UNCHANGED <<options, journal, file, write_status_lock, wpc, json_status,
                   driver, pool, now, all_results, retryer, generator, units>>

\* The task apply_async gets for the record ga: repair_range with ga's
\* start, end, step and nodeposition.
TaskOf(ga) ==
    CHOOSE s \in Slices :
        SliceArgs(s) = [start |-> ga.start, end |-> ga.end, step |-> ga.step,
                        nodeposition |-> ga.nodeposition]

\* One round of the loop: ga = repair_status.gp()[g] (KeyError when g is
\* gone), then apply_async with ga's fields.
Resubmit ==
    /\ pc[Driver] = "resubmit"
    /\ LET g == resume_keys[di]
       IN  IF g \notin DOMAIN pending_repairs
           THEN /\ pc' = [pc EXCEPT ![Driver] = "raised"]
                /\ UNCHANGED <<queue, all_results, di>>
           ELSE /\ queue' = Append(queue, TaskOf(pending_repairs[g]))
                /\ all_results' = Append(all_results, TaskOf(pending_repairs[g]))
                /\ di' = di + 1
                /\ pc' = [pc EXCEPT ![Driver] = IF di = Len(resume_keys) THEN "resume_get"
                                                ELSE "resubmit"]
    /\ UNCHANGED <<options, journal, file, write_status_lock, wpc, json_status,
                   dj, exit_code, task, result, tries, now, resume_keys, retryer,
                   generator, units>>

\* for r in list(all_results): r.get(), then finish().
ResumeGet ==
    /\ pc[Driver] = "resume_get"
    /\ result[all_results[dj]] # "none"
    /\ IF result[all_results[dj]] = "ok"
       THEN /\ dj' = dj + 1
            /\ pc' = [pc EXCEPT ![Driver] = IF dj = Len(all_results) THEN "finish"
                                            ELSE "resume_get"]
       ELSE /\ dj' = dj
            /\ pc' = [pc EXCEPT ![Driver] = "raised"]
    /\ UNCHANGED <<options, journal, file, write_status_lock, wpc, json_status,
                   di, exit_code, pool, now, resumed, retryer, generator, units>>

NextResume ==
    \/ Resume \/ GetPending \/ Resubmit \/ ResumeGet \/ Finish \/ Exit
    \/ \E w \in Workers : Take(w)
    \/ \E w \in Workers : RepairRange(w)
    \/ \E w \in Workers : DryRun(w)
    \/ \E w \in Workers : RunCommand(w)
    \/ \E w \in Workers : RepairSuccess(w)
    \/ \E w \in Workers : RepairFail(w)
    \/ \E c \in Callers : Dumps(c)
    \/ \E c \in Callers : AcquireOpen(c)
    \/ \E c \in Callers : FileWrite(c)
    \/ \E c \in Callers : FileClose(c)

SpecResume == InitResume /\ [][NextResume]_vars

\* A fresh run of a driver that targets all keyspaces, with an exclusion
\* record that names a keyspace and a column family for step 1 of a node of
\* the ring or of a node past its end.
ExcludeNamed(n) ==
    [keyspace |-> PyStr("ks"), column_family |-> PyStr("cf"), node |-> n, step |-> 1]

InitExclude ==
    /\ dry_run \in BOOLEAN
    /\ exclude_step \in {<<ExcludeNamed(n)>> : n \in 1..(HostTokenCount + 1)}
    /\ max_tries = MaxTries
    /\ filename = NoFile /\ steps = None
    /\ started = None /\ updated = None /\ finished = None /\ last_resumed_at = None
    /\ successful_count = 0 /\ failed_count = 0
    /\ failed_repairs = EmptyDict /\ current_repairs = EmptyDict
    /\ finished_repairs = EmptyDict /\ pending_repairs = EmptyDict
    /\ file = [content |-> "absent", doc |-> NoDoc]
    /\ write_status_lock = Unlocked
    /\ pc = [c \in Callers |-> IF c = Driver THEN "start" ELSE "idle"]
    /\ wpc = [c \in Callers |-> "idle"]
    /\ json_status = [c \in Callers |-> NoDoc]
    /\ di = 1 /\ dj = 1 /\ exit_code = Running
    /\ queue = <<>>
    /\ task = [w \in Workers |-> 0]
    /\ result = [s \in Slices |-> "none"]
    /\ tries = [w \in Workers |-> 0]
    /\ now = 1
    /\ resume_keys = <<>> /\ all_results = <<>>
    /\ RetryerOff /\ GeneratorOff /\ UnitsOff

SpecExclude == InitExclude /\ [][Next]_vars

\* Fresh and resumed runs together, without exclusions.
InitRuns == (Init \/ InitResume) /\ exclude_step = <<>>

NextRuns == Next \/ Resume \/ GetPending \/ Resubmit \/ ResumeGet

SpecRuns == InitRuns /\ [][NextRuns]_vars

\* ------------------------------------ ExponentialBackoffRetryer on its own
RetryMaxTries == 7
InitialSleeps == 1..2
SleepFactors == 1..3
MaxSleeps == {-1, 0, 3, 10}

\* Every run variable at rest: no driver, no pool, no journal file.
NoRun ==
    /\ dry_run = FALSE /\ exclude_step = <<>> /\ max_tries = MaxTries
    /\ filename = NoFile /\ steps = None
    /\ started = None /\ updated = None /\ finished = None /\ last_resumed_at = None
    /\ successful_count = 0 /\ failed_count = 0
    /\ failed_repairs = EmptyDict /\ current_repairs = EmptyDict
    /\ finished_repairs = EmptyDict /\ pending_repairs = EmptyDict
    /\ file = [content |-> "absent", doc |-> NoDoc]
    /\ write_status_lock = Unlocked
    /\ pc = [c \in Callers |-> IF c = Driver THEN "exited" ELSE "idle"]
    /\ wpc = [c \in Callers |-> "idle"]
    /\ json_status = [c \in Callers |-> NoDoc]
    /\ di = 1 /\ dj = 1 /\ exit_code = Running
    /\ queue = <<>>
    /\ task = [w \in Workers |-> 0]
    /\ result = [s \in Slices |-> "none"]
    /\ tries = [w \in Workers |-> 0]
    /\ now = 1
    /\ resume_keys = <<>> /\ all_results = <<>>

\* The executor of the tests (FailingExecutor): its first nf invocations fail,
\* the later ones succeed; a result tells which invocation made it.
Executor(nf, n) == [ok |-> n > nf, n |-> n]
\* success_checker: lambda ok: ok
success_checker_never(r) == FALSE
success_checker(r) == r.ok

\* A retryer is built from a config and the call begins: next_sleep =
\* initial_sleep, the loop is at i = 0.
InitRetry ==
    /\ NoRun /\ GeneratorOff /\ UnitsOff
    /\ config \in [max_tries : 1..RetryMaxTries, initial_sleep : InitialSleeps,
                   sleep_factor : SleepFactors, max_sleep : MaxSleeps]
    /\ nfails \in 0..RetryMaxTries
    /\ rpc = "loop"
    /\ next_sleep = config.initial_sleep
    /\ retry_i = 0
    /\ retry_result = NoResult
    /\ executions = 0
    /\ sleeps = <<>>

\* last_iteration = (i == max_tries - 1)
last_iteration_never(i, cfg) == FALSE
last_iteration(i, cfg) == i = cfg.max_tries - 1

Min(a, b) == IF a <= b THEN a ELSE b
\* max_sleep <= 0 switches the cap off.
CapDisabled_negative(cfg) == cfg.max_sleep < 0
CapDisabled(cfg) == cfg.max_sleep <= 0
\* The argument of self.sleeper(...).
SleepArg_uncapped(ns, cfg) == ns
SleepArg(ns, cfg) == IF CapDisabled(cfg) THEN ns ELSE Min(ns, cfg.max_sleep)

\* One pass of the loop body up to the sleep: result = executor(); return on
\* success; on failure go to sleep unless this was the last iteration.
Execute ==
    /\ rpc = "loop" /\ retry_i < config.max_tries
    /\ executions' = executions + 1
    /\ retry_result' = Executor(nfails, executions + 1)
    /\ IF success_checker(Executor(nfails, executions + 1))
       THEN rpc' = "returned" /\ retry_i' = retry_i
       ELSE IF ~last_iteration(retry_i, config)
       THEN rpc' = "sleep" /\ retry_i' = retry_i
       ELSE rpc' = "loop" /\ retry_i' = retry_i + 1
    /\ UNCHANGED <<run, generator, units, config, nfails, next_sleep, sleeps>>

\* self.sleeper(...); next_sleep *= sleep_factor; next round of the loop.
Sleep ==
    /\ rpc = "sleep"
    /\ sleeps' = Append(sleeps, SleepArg(next_sleep, config))
    /\ next_sleep' = next_sleep * config.sleep_factor
    /\ retry_i' = retry_i + 1
    /\ rpc' = "loop"
    /\ UNCHANGED <<run, generator, units, config, nfails, retry_result, executions>>

\* range(max_tries) is used up: return result.
GiveUp ==
    /\ rpc = "loop" /\ retry_i = config.max_tries
    /\ rpc' = "returned"
    /\ UNCHANGED <<run, generator, units, config, nfails, next_sleep, retry_i, retry_result, executions, sleeps>>

NextRetry == Execute \/ Sleep \/ GiveUp

SpecRetry == InitRetry /\ [][NextRetry]_vars

\* ------------------------------------ TokenContainer.get_preceding_token
MaxToken == 3
MaxRing == 3
Tokens == (-MaxToken)..MaxToken

\* ring_tokens after get_ring_tokens: the tokens nodetool ring lists, put in
\* ascending order by ring_tokens.sort().
IsSorted(r) == \A n \in 1..(Len(r) - 1) : r[n] <= r[n+1]
Rings == UNION {{r \in [1..n -> Tokens] : IsSorted(r)} : n \in 1..MaxRing}

\* The loop without reversed(): the item with the least index that token
\* exceeds.
get_preceding_token_forward(r, t) ==
    LET hits == {n \in 1..Len(r) : t > r[n]}
    IN  IF hits # {} THEN r[CHOOSE n \in hits : \A m \in hits : m >= n] ELSE r[Len(r)]
\* for i in reversed(ring_tokens): if token > i: return i -- the item with
\* the greatest index that token exceeds; after the loop, ring_tokens[-1].
get_preceding_token(r, t) ==
    LET hits == {n \in 1..Len(r) : t > r[n]}
    IN  IF hits # {} THEN r[CHOOSE n \in hits : \A m \in hits : m <= n] ELSE r[Len(r)]

InitLookup ==
    /\ NoRun /\ RetryerOff /\ GeneratorOff
    /\ ring_tokens \in Rings /\ token \in Tokens
    /\ preceding = 0 /\ ppc = "call"
    /\ KeyingOff /\ StartupOff

GetPrecedingToken ==
    /\ ppc = "call"
    /\ preceding' = get_preceding_token(ring_tokens, token)
    /\ ppc' = "returned"
    /\ UNCHANGED <<run, retryer, generator, keying, startup, ring_tokens, token>>

NextLookup == GetPrecedingToken

SpecLookup == InitLookup /\ [][NextLookup]_vars

\* ------------------------------------------------------------ create_key
MaxStep == 2

\* The keyspace and column_families values the callers pass: None, '', a
\* name; None, [], a list of names, the string the driver makes of it.
KeyspaceValues == {PyNone, [str |-> <<>>], PyStr("ks")}
ColumnFamiliesValues == {PyNone, PyList(<<>>), PyList(<<"cf">>), str(PyList(<<"cf">>))}

InitKey ==
    /\ NoRun /\ RetryerOff /\ GeneratorOff /\ LookupOff /\ StartupOff
    /\ key_args \in [step : 1..MaxStep, start : 0..1, end : 1..2,
                      nodeposition : {<<n, MaxStep>> : n \in 1..MaxStep},
                      keyspace : KeyspaceValues, column_families : ColumnFamiliesValues]
    /\ key = NoKey /\ kpc = "call" /\ pending_key = NoKey

CreateKey ==
    /\ kpc = "call"
    /\ key' = create_key(key_args.step, key_args.start, key_args.end, key_args.nodeposition,
                         key_args.keyspace, key_args.column_families)
    /\ kpc' = "returned"
    /\ UNCHANGED <<run, retryer, generator, lookup, startup, key_args, pending_key>>

\* The key repair() makes for the slice a with options.keyspace and
\* options.columnfamily: str(options.keyspace), and str(options.columnfamily)
\* or '<all>' for an empty list.
driver_key(a, keyspace, columnfamily) ==
    create_key(a.step, a.start, a.end, a.nodeposition, str(keyspace),
               IF Truthy(columnfamily) THEN str(columnfamily) ELSE PyStr("<all>"))

\* The driver primes the slice, before or after the worker made its key;
\* options.columnfamily is a list.
PrimeKey ==
    /\ kpc # "off" /\ pending_key = NoKey
    /\ IsList(key_args.column_families)
    /\ pending_key' = driver_key(key_args, key_args.keyspace, key_args.column_families)
    /\ UNCHANGED <<run, retryer, generator, lookup, startup, key_args, key, kpc>>

NextKey == CreateKey \/ PrimeKey

SpecKey == InitKey /\ [][NextKey]_vars

\* ------------------------------------ TokenContainer.sub_range_generator
GenMaxSteps == 4

\* FORMAT_TEMPLATE.format(value): the sign ('+' only under the '+' flag), the
\* digits of |value| and the width they are zero-padded to.
format(value) ==
    [sign   |-> IF value < 0 THEN "-" ELSE IF tc.FORMAT_TEMPLATE.plus THEN "+" ELSE "",
     digits |-> IF value < 0 THEN -value ELSE value,
     width  |-> tc.FORMAT_TEMPLATE.width]

\* list(range(a, b, inc)) for inc > 0
range(a, b, inc) ==
    [n \in 1..(IF b > a THEN (b - a + inc - 1) \div inc ELSE 0) |-> a + (n - 1) * inc]
\* [self.format(x) for x in l]
Formatted(l) == [n \in 1..Len(l) |-> format(l[n])]
\* l[0:n] without the cut: the whole list
Slice0_whole(l, n) == l
\* l[0:n]
Slice0(l, n) == SubSeq(l, 1, Min(n, Len(l)))
\* l.pop(), for what it leaves in l
Pop(l) == SubSeq(l, 1, Len(l) - 1)
\* A pop at the wrong end: the last item leaves, the first stays
Pop0_last(l) == SubSeq(l, 1, Len(l) - 1)
\* l.pop(0), for what it leaves in l
Pop0(l) == SubSeq(l, 2, Len(l))

\* stop > start and start+steps < stop+1: lines 250-254.
NonWrapList(a) ==
    LET step_increment == (a.stop - a.start) \div a.steps
    IN  Slice0(Formatted(range(a.start, a.stop, step_increment)), a.steps)

\* The wrap-around case with distance > steps-1: lines 261-266.
distance(a) == (tc.RANGE_MAX - a.start) + (a.stop - tc.RANGE_MIN)
WrapList(a) ==
    LET step_increment == distance(a) \div a.steps
        l == Formatted(range(a.start, tc.RANGE_MAX, step_increment))
             \o Formatted(range(tc.RANGE_MIN, a.stop, step_increment))
    IN  IF Len(l) > a.steps - 1 THEN Pop(l) ELSE l

\* The generator is created for tokens of the ring and a number of steps;
\* check_for_MD5_tokens has set the class attributes.
InitGen ==
    /\ NoRun /\ RetryerOff /\ UnitsOff
    /\ tc \in {Murmur3, Random}
    /\ gen_args \in [start : tc.RANGE_MIN..tc.RANGE_MAX, stop : tc.RANGE_MIN..tc.RANGE_MAX,
                     steps : 1..GenMaxSteps]
    /\ gpc = "new" /\ step = 0 /\ step_list = Unbound /\ yielded = <<>>

\* The while loop at lines 272-275, entered with step_list l: yield the
\* first pair, or return when fewer than two items are left.
Loop(l) ==
    /\ step_list' = [bound |-> TRUE, items |-> l]
    /\ IF Len(l) > 1
       THEN /\ step' = step + 1
            /\ yielded' = Append(yielded, [start |-> l[1], end |-> l[2], step |-> step + 1])
            /\ gpc' = "yield_loop"
       ELSE /\ gpc' = "done"
            /\ UNCHANGED <<step, yielded>>

\* The first next(): down to the first yield, or to the end.
GenFirst ==
    /\ gpc = "new"
    /\ LET small == IF gen_args.stop > gen_args.start
                    THEN ~(gen_args.start + gen_args.steps < gen_args.stop + 1)
                    ELSE ~(distance(gen_args) > gen_args.steps - 1)
       IN  IF small
           THEN /\ step' = step + 1
                /\ yielded' = Append(yielded, [start |-> format(gen_args.start),
                                               end |-> format(gen_args.stop),
                                               step |-> step + 1])
                /\ gpc' = "yield_small"
                /\ UNCHANGED step_list
           ELSE Loop(Append(IF gen_args.stop > gen_args.start THEN NonWrapList(gen_args)
                                                               ELSE WrapList(gen_args),
                            format(gen_args.stop)))
    /\ UNCHANGED <<run, retryer, units, tc, gen_args>>

\* A later next(): after the yield of a small range, line 270 reads
\* step_list, which was never assigned: UnboundLocalError.  After a yield of
\* the loop: step_list.pop(0) and round the loop again.
GenNext ==
    /\ gpc \in {"yield_small", "yield_loop"}
    /\ IF gpc = "yield_small"
       THEN /\ gpc' = "raised"
            /\ UNCHANGED <<step, step_list, yielded>>
       ELSE Loop(Pop0(step_list.items))
    /\ UNCHANGED <<run, retryer, units, tc, gen_args>>

NextGen == GenFirst \/ GenNext

SpecGen == InitGen /\ [][NextGen]_vars

\* The wrap-around scenario: the owned range starts 100 tokens below
\* RANGE_MAX and stops 100 tokens above RANGE_MIN and is cut in 4 steps, on
\* rings of either partitioner and of every width from 8 to MaxWrapBits bits
\* (8 bits is the narrowest ring that holds both tokens).
MaxWrapBits == 24
WideRings ==
    UNION {{[RANGE_MIN |-> -(2^(b-1)), RANGE_MAX |-> 2^(b-1) - 1,
             FORMAT_TEMPLATE |-> [plus |-> TRUE, width |-> 21]],
            [RANGE_MIN |-> 0, RANGE_MAX |-> 2^b - 1,
             FORMAT_TEMPLATE |-> [plus |-> FALSE, width |-> 39]]} : b \in 8..MaxWrapBits}

InitWrap ==
    /\ NoRun /\ RetryerOff /\ UnitsOff
    /\ tc \in WideRings
    /\ gen_args = [start |-> tc.RANGE_MAX - 100, stop |-> tc.RANGE_MIN + 100, steps |-> 4]
    /\ gpc = "new" /\ step = 0 /\ step_list = Unbound /\ yielded = <<>>

SpecWrap == InitWrap /\ [][NextGen]_vars

\* ------------------------------------- main and TokenContainer.__init__
\* The program from the parsed command line to the first slices it hands to
\* the pool: main's checks, the ring discovery of TokenContainer(options),
\* the pool and the RepairStatus object, then start() or resume() and the
\* dispatch loop.  The run behind that is Spec and SpecResume.  A fresh run
\* without --output-status keeps no journal and is left out.
OptionValues ==
    {o \in [keyspace : {PyNone, PyStr("ks")}, columnfamily : {PyList(<<>>), PyList(<<"cf">>)},
            args : {<<>>, <<"extra">>}, resume : BOOLEAN,
            output_status : {PyNone, PyStr("status.json")},
            datacenter : {PyNone, PyStr("dc1")}] :
        IsNone(o.output_status) => o.resume}

\* What main and the TokenContainer constructor never change.
aside == <<options, journal, file, write_status_lock, wpc, json_status, di, dj, pool, now,
           resumed, retryer, keying, opts, token, preceding, ppc,
           gen_args, gpc, step, step_list, yielded>>

InitMain ==
    /\ dry_run = FALSE /\ exclude_step = <<>> /\ max_tries = MaxTries
    /\ filename = NoFile /\ steps = None
    /\ started = None /\ updated = None /\ finished = None /\ last_resumed_at = None
    /\ successful_count = 0 /\ failed_count = 0
    /\ failed_repairs = EmptyDict /\ current_repairs = EmptyDict
    /\ finished_repairs = EmptyDict /\ pending_repairs = EmptyDict
    /\ opts \in OptionValues
    /\ IF opts.resume THEN file \in JournalFiles /\ now = 4
                      ELSE file = [content |-> "absent", doc |-> NoDoc] /\ now = 1
    /\ write_status_lock = Unlocked
    /\ pc = [c \in Callers |-> IF c = Driver THEN "main" ELSE "none"]
    /\ wpc = [c \in Callers |-> "idle"]
    /\ json_status = [c \in Callers |-> NoDoc]
    /\ di = 1 /\ dj = 1 /\ exit_code = Running
    /\ queue = <<>>
    /\ task = [w \in Workers |-> 0]
    /\ result = [s \in Slices |-> "none"]
    /\ tries = [w \in Workers |-> 0]
    /\ resume_keys = <<>> /\ all_results = <<>>
    /\ RetryerOff /\ GeneratorOff /\ LookupOff /\ KeyingOff
    /\ mpc = "main" /\ commands = <<>>

\* The checks without the one of --resume.
invalid_configuration_lax(o) ==
    \/ Truthy(o.columnfamily) /\ ~Truthy(o.keyspace)
    \/ o.args # <<>>
\* The three conditions under which main prints the help and calls
\* sys.exit(1).
invalid_configuration(o) ==
    \/ Truthy(o.columnfamily) /\ ~Truthy(o.keyspace)
    \/ o.args # <<>>
    \/ o.resume /\ ~Truthy(o.output_status)

\* main after parse_args: sys.exit(1), or repair(options), which begins
\* with TokenContainer(options).
Validate ==
    /\ mpc = "main"
    /\ IF invalid_configuration(opts)
       THEN /\ mpc' = "exited"
            /\ exit_code' = 1
            /\ pc' = [pc EXCEPT ![Driver] = "exited"]
       ELSE /\ mpc' = "local_nodes"
            /\ UNCHANGED <<exit_code, pc>>
    /\ UNCHANGED <<aside, commands, ring_tokens, tc>>

\* A command whose failure is passed over.
raise_unless_never(success, next) == next
\* if not success: raise Exception(...)
raise_unless(success, next) == IF success THEN next ELSE "raised"

\* The constructor goes on at position p, or its exception leaves repair()
\* and main.
Constructor(p) ==
    /\ mpc' = p
    /\ pc' = IF p = "raised" THEN [pc EXCEPT ![Driver] = "raised"] ELSE pc

\* run_command(nodetool, ..., c) with the success it reports.
run_command(c, success) == commands' = Append(commands, [cmd |-> c, success |-> success])

\* get_local_nodes: nothing without --datacenter, else nodetool gossipinfo.
GetLocalNodes ==
    /\ mpc = "local_nodes"
    /\ IF ~Truthy(opts.datacenter)
       THEN /\ Constructor("host_tokens")
            /\ UNCHANGED commands
       ELSE \E success \in BOOLEAN :
               /\ run_command("gossipinfo", success)
               /\ Constructor(raise_unless(success, "host_tokens"))
    /\ UNCHANGED <<aside, exit_code, ring_tokens, tc>>

\* get_host_tokens: nodetool info -T; raises on failure and on an output
\* without a Token line.
GetHostTokens ==
    /\ mpc = "host_tokens"
    /\ \E success \in BOOLEAN, found \in BOOLEAN :
          /\ run_command("info -T", success)
          /\ Constructor(raise_unless(success /\ found, "ring_tokens"))
    /\ UNCHANGED <<aside, exit_code, ring_tokens, tc>>

\* The sorted token lists nodetool ring is parsed to: no token line, a ring
\* of Murmur3 tokens, a ring of Random tokens.
RingOutputs == {<<>>, <<-1, 1>>, <<1, 2>>}

\* get_ring_tokens: nodetool ring; raises on failure.
GetRingTokens ==
    /\ mpc = "ring_tokens"
    /\ \E success \in BOOLEAN :
          /\ run_command("ring", success)
          /\ Constructor(raise_unless(success, "md5"))
          /\ IF success THEN ring_tokens' \in RingOutputs ELSE UNCHANGED ring_tokens
    /\ UNCHANGED <<aside, exit_code, tc>>

\* check_for_MD5_tokens: ring_tokens[0] (IndexError on an empty list); a first
\* token that is not negative switches the class attributes to Random.
CheckMD5 ==
    /\ mpc = "md5"
    /\ IF ring_tokens = <<>>
       THEN /\ Constructor("raised")
            /\ UNCHANGED tc
       ELSE /\ Constructor("pool")
            /\ tc' = IF ~(ring_tokens[1] < 0) THEN Random ELSE tc
    /\ UNCHANGED <<aside, exit_code, commands, ring_tokens>>

\* repair() behind TokenContainer(options): the pool, the manager and the
\* RepairStatus object; then the --resume branch or start().
CreatePool ==
    /\ mpc = "pool"
    /\ mpc' = "repair"
    /\ pc' = [c \in Callers |-> IF c # Driver THEN "idle"
                                 ELSE IF opts.resume THEN "resume" ELSE "start"]
    /\ UNCHANGED <<aside, exit_code, commands, ring_tokens, tc>>

NextMain ==
    \/ Validate \/ GetLocalNodes \/ GetHostTokens \/ GetRingTokens \/ CheckMD5 \/ CreatePool
    \/ Start \/ Submit \/ AddPending
    \/ Resume \/ GetPending \/ Resubmit
    \/ Exit
    \/ \E w \in Workers : Take(w)
    \/ \E c \in Callers : Dumps(c)
    \/ \E c \in Callers : AcquireOpen(c)
    \/ \E c \in Callers : FileWrite(c)
    \/ \E c \in Callers : FileClose(c)

SpecMain == InitMain /\ [][NextMain]_vars

\* ---------------------------------------------------------------- claims
Keys(d) == DOMAIN d
AllKeys == Keys(pending_repairs) \cup Keys(current_repairs)
           \cup Keys(finished_repairs) \cup Keys(failed_repairs)
\* Keys the driver has called add_pending_repair for.
Primed == {DriverKey(s) : s \in 1..(di - 1)}
\* Workers between the return of repair_start and the end of their task.
Started(w) == pc[w] \in {"retry", "repair_success", "repair_fail", "in_repair_success"}
BucketsOf(k) ==
    {b \in {"pending", "current", "finished", "failed"} :
        \/ b = "pending" /\ k \in Keys(pending_repairs)
        \/ b = "current" /\ k \in Keys(current_repairs)
        \/ b = "finished" /\ k \in Keys(finished_repairs)
        \/ b = "failed" /\ k \in Keys(failed_repairs)}

C2_SuccessfulCountIsFinished == successful_count = Cardinality(Keys(finished_repairs))

\* C3 (as claimed): failed_count is the number of keys in failed; every
\* repair_fail adds one key to failed and one to failed_count.
C3_FailedCountIsFailed == failed_count = Cardinality(Keys(failed_repairs))

\* C4 (as claimed): a slice whose command failed max_tries times is recorded
\* in failed and its task returns normally, so r.get() raises nothing.
C4_FailureStaysInWorker ==
    /\ \A s \in Slices :
          (result[s] # "none" /\ WorkerKey(s) \in Keys(failed_repairs)) => result[s] = "ok"
    /\ (\A s \in Slices : result[s] \in {"none", "ok", "AttributeError"})
          => pc[Driver] # "raised"

\* C5 (as claimed): a fresh run ends with finish() called and exit code 0,
\* whether or not slices failed (here: no exclusion, failures only from the
\* repair command).
C5_EndsFinishedExitZero ==
    (/\ pc[Driver] = "exited"
     /\ exclude_step = <<>>
     /\ \A s \in Slices : result[s] \in {"none", "ok", "AttributeError"})
        => (finished # None /\ exit_code = 0)

\* C6 (as claimed): a key is primed before its task can run repair_start, so
\* it is in pending when repair_success or repair_fail runs for it.
C6_PrimedBeforeStart ==
    \A w \in Workers :
        /\ (pc[w] = "in_repair_start" \/ Started(w)) => WorkerKey(task[w]) \in Primed
        /\ pc[w] \in {"repair_success", "repair_fail"}
              => WorkerKey(task[w]) \in Keys(pending_repairs)

\* C7 (as claimed): when the run has ended, finished is set if and only if
\* no key is left in pending or current.
C7_FinishedIffDrained ==
    pc[Driver] = "exited" =>
        ((finished # None) <=> (Keys(pending_repairs) = {} /\ Keys(current_repairs) = {}))

\* C8 (as claimed): the four buckets together hold exactly the keys primed
\* so far.
C8_UnionIsPrimed == AllKeys = Primed

\* C9 (as claimed): the file follows the mutations in their order, so when
\* every write() has returned the file holds the journal as it is in memory
\* (here: the buckets that only writing mutators change, in runs where no
\* mutator raised).
C9_FileFollowsMutations ==
    (/\ \A c \in Callers : wpc[c] = "idle"
     /\ file.content = "whole"
     /\ \A s \in Slices : result[s] \in {"none", "ok"})
        => /\ file.doc.current_repairs = current_repairs
           /\ file.doc.finished_repairs = finished_repairs
           /\ file.doc.successful_count = successful_count

\* C10 (as claimed): once start() has written the journal, a reader finds a
\* whole document in the file at every moment.
C10_ReaderSeesWholeDocument ==
    pc[Driver] \notin {"start", "in_start"} => file.content = "whole"

\* A whole document with finished set that no resumed run has written: the
\* journal of a completed fresh run, as --resume finds it.
FinishedJournal ==
    file.content = "whole" /\ file.doc.finished # None /\ file.doc.last_resumed_at = None

\* C11: resume() on a journal whose finished field is non-null raises; from
\* then on no slice is submitted or run, and neither the file nor the buckets
\* and counters in memory change.
C11_FinishedJournalRefused ==
    [][FinishedJournal =>
          /\ pc'[Driver] \in {"raised", "exited"}
          /\ file' = file
          /\ UNCHANGED <<buckets, counters, pool, resumed>>]_vars

\* C11 witness: resume() has run on the journal of a completed run and raised.
C11_Witness ==
    /\ pc[Driver] = "raised"
    /\ filename # NoFile
    /\ file = [content |-> "whole", doc |-> Completed]

\* No slice has been processed: no worker has reached repair_start and no
\* task has ended.
NoSliceProcessed ==
    /\ \A w \in Workers : pc[w] \in {"idle", "repair_range"}
    /\ \A s \in Slices : result[s] = "none"

\* C12 (as claimed): while the fresh run has started the journal and primed
\* keys but processed no slice, the pending bucket resume() loads from the
\* journal file is the set of keys primed so far.
C12_ResumeYieldsPrimed ==
    (/\ pc[Driver] \in {"submit", "prime", "get"}
     /\ file.content = "whole" /\ ~AlreadyFinished(file.doc)
     /\ NoSliceProcessed)
        => Keys(_from_output_status(file.doc).pending_repairs) = Primed

\* In a resumed run every queued task carries the start, end, step and
\* nodeposition of a record in pending, and once the loop has ended the tasks
\* submitted are those of the keys gp() returned, in that order.
TasksAreStoredPending ==
    /\ \A j \in 1..Len(queue) :
          \E k \in Keys(pending_repairs) : TaskOf(pending_repairs[k]) = queue[j]
    /\ pc[Driver] \in {"resume_get", "finish", "in_finish", "return"} =>
          /\ Len(all_results) = Len(resume_keys)
          /\ \A j \in 1..Len(resume_keys) : DriverKey(all_results[j]) = resume_keys[j]

\* C13 (as claimed): in a resumed run the tasks submitted are exactly those
\* of the records of the loaded pending bucket, each with its stored start,
\* end, step and nodeposition, and a slice that is in finished or failed is
\* never submitted.
C13_ResubmitsPendingOnly ==
    /\ TasksAreStoredPending
    /\ \A j \in 1..Len(queue) :
          WorkerKey(queue[j]) \notin Keys(finished_repairs) \cup Keys(failed_repairs)

\* C14 (as claimed): whenever a slice is in flight (repair_start has written
\* the journal, the command is running), the file, which is what a resume
\* after a termination at this point loads, is a whole unfinished document
\* that has the slice neither in finished nor in failed, and the resumed run
\* submits the slice again, that is, its key is among the pending keys loaded.
C14_InFlightIsResumable ==
    \A w \in Workers :
        (pc[w] = "retry" /\ wpc[w] = "idle") =>
            /\ file.content = "whole"
            /\ ~AlreadyFinished(file.doc)
            /\ LET j == _from_output_status(file.doc)
                   k == WorkerKey(task[w])
               IN  /\ k \notin Keys(j.finished_repairs) \cup Keys(j.failed_repairs)
                   /\ \E n \in 1..Len(gp_keys(j.pending_repairs)) :
                         /\ gp_keys(j.pending_repairs)[n] = k
                         /\ TaskOf(j.pending_repairs[k]) = task[w]

RECURSIVE Pow(_, _)
Pow(b, e) == IF e = 0 THEN 1 ELSE b * Pow(b, e - 1)

\* C15: with max_tries = N >= 1 and an executor that fails every time, the
\* call returns after exactly N invocations of the executor and N - 1 sleeps,
\* and what it returns is the failing result of the N-th invocation.
C15_AlwaysFailing ==
    (rpc = "returned" /\ nfails >= config.max_tries) =>
        /\ executions = config.max_tries
        /\ Len(sleeps) = config.max_tries - 1
        /\ retry_result = Executor(nfails, config.max_tries)
        /\ ~success_checker(retry_result)

\* C15 witness: a call with three tries and an always failing executor has
\* returned.
C15_Witness ==
    rpc = "returned" /\ config.max_tries = 3 /\ nfails >= 3 /\ executions = 3

\* C16: when the executor first succeeds on attempt k <= max_tries, the
\* executor is never invoked more than k times nor the sleeper more than
\* k - 1 times, and the call returns the successful result of attempt k after
\* exactly k invocations and k - 1 sleeps.
C16_FirstSuccessAtK ==
    nfails + 1 <= config.max_tries =>
        /\ executions <= nfails + 1
        /\ Len(sleeps) <= nfails
        /\ rpc = "returned" =>
              /\ executions = nfails + 1
              /\ Len(sleeps) = nfails
              /\ retry_result = Executor(nfails, nfails + 1)
              /\ success_checker(retry_result)

\* C16 witness: a call whose executor failed twice and then succeeded, with
\* tries to spare, has returned.
C16_Witness ==
    rpc = "returned" /\ nfails = 2 /\ config.max_tries = 5 /\ executions = 3

\* C17: with max_sleep = C > 0 the i-th sleep is min(initial_sleep *
\* sleep_factor^(i-1), C), and the nominal delay next_sleep is not capped: it
\* is initial_sleep * sleep_factor^(number of sleeps so far).
C17_CappedSleeps ==
    (rpc # "off" /\ config.max_sleep > 0) =>
        /\ \A n \in 1..Len(sleeps) :
              sleeps[n] = Min(config.initial_sleep * Pow(config.sleep_factor, n - 1),
                              config.max_sleep)
        /\ next_sleep = config.initial_sleep * Pow(config.sleep_factor, Len(sleeps))

\* C17 witness: initial 1, factor 2, cap 10, 7 tries, always failing: the
\* sleeps were 1, 2, 4, 8, 10, 10.
C17_Witness ==
    /\ rpc = "returned"
    /\ config = [max_tries |-> 7, initial_sleep |-> 1, sleep_factor |-> 2, max_sleep |-> 10]
    /\ sleeps = <<1, 2, 4, 8, 10, 10>>

\* C18: with max_sleep <= 0 there is no cap: the i-th sleep is initial_sleep *
\* sleep_factor^(i-1).
C18_UncappedSleeps ==
    (rpc # "off" /\ config.max_sleep <= 0) =>
        \A n \in 1..Len(sleeps) :
            sleeps[n] = config.initial_sleep * Pow(config.sleep_factor, n - 1)

\* C18 witness: initial 1, factor 2, max_sleep 0, 7 tries, always failing:
\* the sleeps were 1, 2, 4, 8, 16, 32.
C18_Witness ==
    /\ rpc = "returned"
    /\ config = [max_tries |-> 7, initial_sleep |-> 1, sleep_factor |-> 2, max_sleep |-> 0]
    /\ sleeps = <<1, 2, 4, 8, 16, 32>>

\* C19 (as claimed): for every start, stop and steps >= 1 the generator
\* yields at least one slice, each slice ends where the next one starts, the
\* first slice starts at format(start) and the last one ends at format(stop).
C19_ContiguousCover ==
    /\ \A n \in 1..(Len(yielded) - 1) : yielded[n].end = yielded[n + 1].start
    /\ yielded # <<>> => yielded[1].start = format(gen_args.start)
    /\ gpc \in {"done", "raised"} =>
          /\ Len(yielded) >= 1
          /\ yielded[Len(yielded)].end = format(gen_args.stop)

\* C20 (as claimed): the generator yields at most steps slices.
C20_AtMostSteps == gpc # "off" => Len(yielded) <= gen_args.steps

\* The range holds fewer keys than steps: the two else branches of the
\* generator (lines 255 and 267).
SmallRange(a) ==
    IF a.stop > a.start THEN ~(a.start + a.steps < a.stop + 1)
    ELSE ~(distance(a) > a.steps - 1)

\* C21 (as claimed): for a range with fewer keys than steps the generator
\* yields the one slice (format(start), format(stop), 1) and, asked for the
\* next one, ends normally.
C21_SmallRangeEndsNormally ==
    (SmallRange(gen_args) /\ gpc \notin {"off", "new"}) =>
        /\ yielded = <<[start |-> format(gen_args.start), end |-> format(gen_args.stop),
                        step |-> 1]>>
        /\ gpc \in {"yield_small", "done"}

\* C22 (as claimed): for start = RANGE_MAX - 100, stop = RANGE_MIN + 100 and
\* steps = 4 the generator, run to its end, has yielded exactly 4 slices, the
\* first starting at format(start), each starting where the one before ended,
\* the last ending at format(RANGE_MIN + 100).
C22_WrapAroundFourSlices ==
    gpc = "done" =>
        /\ Len(yielded) = 4
        /\ yielded[1].start = format(gen_args.start)
        /\ \A n \in 1..(Len(yielded) - 1) : yielded[n].end = yielded[n+1].start
        /\ yielded[Len(yielded)].end = format(tc.RANGE_MIN + 100)

\* The slice the claim names as number n of a non-wrapping range.
NonWrapSlice(a, n) ==
    LET inc == (a.stop - a.start) \div a.steps
    IN  [start |-> format(a.start + (n - 1) * inc),
         end   |-> IF n < a.steps THEN format(a.start + n * inc) ELSE format(a.stop),
         step  |-> n]

\* C30: in the non-wrapping case with stop - start >= steps, the slices
\* yielded so far are slices 1, 2, ... of the claim, in order (slice i < steps
\* is (start + (i-1)*inc, start + i*inc), slice steps ends at stop), and when
\* the generator has ended there are exactly steps of them.
C30_NonWrappingSlices ==
    (gen_args.stop > gen_args.start /\ gen_args.stop - gen_args.start >= gen_args.steps
     /\ gpc \notin {"off", "new"}) =>
        /\ Len(yielded) <= gen_args.steps
        /\ \A n \in 1..Len(yielded) : yielded[n] = NonWrapSlice(gen_args, n)
        /\ gpc = "done" => Len(yielded) = gen_args.steps
        /\ gpc \in {"yield_loop", "done"}

\* A range that is not a multiple of steps has been cut in more than one
\* slice and the generator has ended: the last slice absorbed the remainder.
C30_Witness ==
    /\ gpc = "done"
    /\ gen_args.stop > gen_args.start /\ gen_args.steps > 1
    /\ gen_args.stop - gen_args.start >= gen_args.steps
    /\ (gen_args.stop - gen_args.start) % gen_args.steps # 0
    /\ Len(yielded) = gen_args.steps

\* C27: in a fresh run the current bucket never holds more keys than the pool
\* has workers, in memory and in every document a write() has built or stored,
\* and every key of the bucket is the key of a slice a worker is working on.
C27_CurrentWithinPool ==
    /\ Cardinality(Keys(current_repairs)) <= workers
    /\ \A c \in Callers :
          json_status[c] # NoDoc => Cardinality(Keys(json_status[c].current_repairs)) <= workers
    /\ file.doc # NoDoc => Cardinality(Keys(file.doc.current_repairs)) <= workers
    /\ \A k \in Keys(current_repairs) : \E w \in Workers : task[w] # 0 /\ WorkerKey(task[w]) = k

\* More slices than workers: every worker of the pool has a slice in the
\* current bucket while a submitted slice waits in the queue.
C27_Witness ==
    /\ workers < NumSlices
    /\ Cardinality(Keys(current_repairs)) = workers
    /\ queue # <<>>

\* The slice's (node index, step) matches a record of options.exclude_step
\* that names no keyspace.
ExcludedWhole(s) ==
    \E i \in 1..Len(exclude_step) :
        /\ exclude_step[i].node = SliceArgs(s).nodeposition[1]
        /\ exclude_step[i].step = SliceArgs(s).step
        /\ IsNone(exclude_step[i].keyspace)

\* C25 (as claimed): the task of a slice that an exclusion record without
\* keyspace matches returns normally (its result is None, never an
\* exception), and the slice's key enters no bucket a worker writes.
C25_ExcludedSliceIsSkipped ==
    \A s \in Slices :
        ExcludedWhole(s) =>
            /\ result[s] \in {"none", "ok"}
            /\ WorkerKey(s) \notin Keys(current_repairs) \cup Keys(finished_repairs)
                                   \cup Keys(failed_repairs)

\* The repair CLI has been invoked for slice s: its key was moved on by
\* repair_success or repair_fail, or its worker stands behind the retryer.
Invoked(s) ==
    \/ WorkerKey(s) \in Keys(finished_repairs) \cup Keys(failed_repairs)
    \/ \E w \in Workers : task[w] = s /\ pc[w] \in {"repair_success", "repair_fail",
                                                    "in_repair_success"}

\* C24 (as claimed): when a fresh run with max_tries = 1 in which no command
\* failed has ended, the CLI has been invoked once for every slice the
\* generator yielded: host tokens * steps invocations in all.
C24_EverySliceInvoked ==
    (pc[Driver] = "exited" /\ failed_repairs = EmptyDict) =>
        Cardinality({s \in Slices : Invoked(s)}) = HostTokenCount * Steps

\* The greatest member of a non-empty set of tokens.
Largest(S) == CHOOSE x \in S : \A y \in S : y <= x

\* C23: on a ring sorted ascending, get_preceding_token(t) returns the
\* largest ring token strictly less than t, and the largest ring token when
\* no ring token is less than t.
C23_PrecedingToken ==
    ppc = "returned" =>
        LET ring == {ring_tokens[n] : n \in 1..Len(ring_tokens)}
            less == {x \in ring : x < token}
        IN  preceding = IF less # {} THEN Largest(less) ELSE Largest(ring)

\* Both cases on a ring of several tokens: a token between two ring tokens
\* got the lower one, or the smallest ring token got the largest (the wrap).
C23_Witness ==
    /\ ppc = "returned" /\ Len(ring_tokens) = MaxRing
    /\ ring_tokens[1] < ring_tokens[2] /\ ring_tokens[2] < ring_tokens[MaxRing]
    /\ \/ token = ring_tokens[1] /\ preceding = ring_tokens[MaxRing]
       \/ token = ring_tokens[MaxRing] /\ preceding = ring_tokens[MaxRing - 1]

\* C26 (as claimed): the key create_key returns holds the literal <all> in
\* the keyspace position when no keyspace is given (None or ''), and the
\* literal <all> in the column_families position when the list is empty or
\* absent.
C26_AllWhenUnspecified ==
    kpc = "returned" =>
        /\ ~Truthy(key_args.keyspace) => key[5] = PyStr("<all>")
        /\ ~Truthy(key_args.column_families) => key[6] = PyStr("<all>")

\* The two invalid configurations of the claim.
InvalidOptions ==
    \/ Truthy(opts.columnfamily) /\ ~Truthy(opts.keyspace)
    \/ opts.resume /\ ~Truthy(opts.output_status)

\* C28: with a column family but no keyspace, or with --resume but no
\* --output-status, every step the program takes ends it with exit code 1,
\* no admin command has been run and the step leaves the journal object, the
\* journal file and the pool (queue, tasks, results) as they were.
C28_InvalidConfigurationExits ==
    [][InvalidOptions =>
          /\ exit_code' = 1 /\ pc'[Driver] = "exited"
          /\ commands' = <<>>
          /\ UNCHANGED <<journal, file, pool>>
          /\ \A w \in Workers : pc'[w] = "none"]_vars

\* --resume without --output-status, nothing else wrong: main has exited
\* with status 1.
C28_Witness ==
    /\ opts.resume /\ ~Truthy(opts.output_status)
    /\ ~Truthy(opts.columnfamily) /\ opts.args = <<>>
    /\ mpc = "exited" /\ exit_code = 1 /\ commands = <<>>

\* A discovery command has reported failure.
DiscoveryFailed == \E n \in 1..Len(commands) : ~commands[n].success

\* C29: a step after which a discovery command (gossipinfo, info -T, ring)
\* has failed leaves the journal object, the journal file and the pool as
\* they were: the driver is on its way out with the exception (or has
\* exited with status 1), start() and resume() have not run, no pool worker
\* exists and no slice is queued.
C29_DiscoveryFailureAborts ==
    [][DiscoveryFailed' =>
          /\ UNCHANGED <<journal, file, pool>>
          /\ pc'[Driver] \in {"raised", "exited"}
          /\ exit_code' \in {Running, 1}
          /\ filename' = NoFile /\ queue' = <<>>
          /\ \A w \in Workers : pc'[w] = "none"]_vars

\* gossipinfo and info -T succeeded, ring failed, and the program has exited
\* with status 1.
C29_Witness ==
    /\ Len(commands) = 3
    /\ commands[1].success /\ commands[2].success
    /\ commands[3] = [cmd |-> "ring", success |-> FALSE]
    /\ pc[Driver] = "exited" /\ exit_code = 1
    /\ mpc = "raised"

\* C31 (as claimed): in a run that invokes the CLI, without exclusions, a
\* slice is in the current bucket (repair_start journalled) while its worker
\* is at the retryer or at the terminal call, and when its task has ended,
\* exactly one of repair_success and repair_fail has been carried out for
\* it: the key is in exactly one of finished and failed and the call
\* returned to _repair_range, which returned None.
C31_StartThenAttemptsThenOneOutcome ==
    (~dry_run /\ exclude_step = <<>>) =>
        \A s \in Slices :
            /\ \A w \in Workers :
                  (task[w] = s /\ pc[w] \in {"retry", "repair_success", "repair_fail"})
                      => WorkerKey(s) \in Keys(current_repairs)
            /\ result[s] # "none" =>
                  /\ (WorkerKey(s) \in Keys(finished_repairs))
                         # (WorkerKey(s) \in Keys(failed_repairs))
                  /\ result[s] = "ok"

\* C32 (as claimed): no retryer is past max_tries invocations, a key is put
\* in failed only by a worker whose command failed max_tries times, and when
\* the run has ended with no exception other than the one of a failed slice,
\* every slice has been run.
C32_FailedSliceDoesNotStopTheRun ==
    /\ \A w \in Workers : tries[w] < max_tries
    /\ (/\ pc[Driver] = "exited"
        /\ exclude_step = <<>>
        /\ \A s \in Slices : result[s] \in {"none", "ok", "AttributeError"})
           => \A s \in Slices : result[s] # "none"

\* C33: a step after which the finished timestamp is set (the step of
\* finish() itself and every later one) changes no bucket and no counter,
\* and leaves no task in the queue and no worker in a task: every submitted
\* slice had completed when finish() was called, in fresh and resumed runs.
C33_FinishAfterAllTasks ==
    [][finished' # None =>
          /\ UNCHANGED <<buckets, counters>>
          /\ queue' = <<>>
          /\ \A w \in Workers : pc'[w] = "idle" /\ task'[w] = 0]_vars

\* A fresh run that submitted every slice, or a resumed run that submitted
\* again what was pending, has called finish().
C33_Witness ==
    /\ finished # None
    /\ \/ last_resumed_at = None /\ \A s \in Slices : result[s] = "ok"
       \/ last_resumed_at # None /\ all_results # <<>>

\* C34 (as claimed): a document stored in the journal file carries the time
\* of its own write: its updated field is set, and is not older than the
\* started, finished and last_resumed_at stamps it records.
C34_FileCarriesItsWriteTime ==
    file.content = "whole" =>
        /\ file.doc.updated # None
        /\ file.doc.updated >= file.doc.started
        /\ file.doc.updated >= file.doc.finished
        /\ file.doc.updated >= file.doc.last_resumed_at

\* The slice's (node index, step) matches a record of options.exclude_step
\* that names a keyspace and a column family, and the driver targets all
\* keyspaces.
ExcludedTable(s) ==
    /\ IsNone(OptKeyspace)
    /\ \E i \in 1..Len(exclude_step) :
          /\ exclude_step[i].node = SliceArgs(s).nodeposition[1]
          /\ exclude_step[i].step = SliceArgs(s).step
          /\ Truthy(exclude_step[i].keyspace) /\ Truthy(exclude_step[i].column_family)

\* C35 (as claimed): the task of a slice whose exclusion names a keyspace and
\* a column family goes on to the per-keyspace repair commands (one for the
\* excluded keyspace without the excluded table, one for every other
\* keyspace) and returns: it never ends with an exception of the exclusion
\* test.
C35_ExcludedTableIsLeftOut ==
    \A s \in Slices : ExcludedTable(s) => result[s] \in {"none", "ok"}

\* C36: for every slice and every options.keyspace (unset, empty or set) and
\* options.columnfamily (empty or not), the key the driver primes pending
\* with is the key repair_start, repair_success and repair_fail make.
C36_DriverKeyIsWorkerKey ==
    (kpc = "returned" /\ pending_key # NoKey) => key = pending_key

\* Both keys have been made for a run without keyspace and with a column
\* family.
C36_Witness ==
    /\ kpc = "returned" /\ pending_key # NoKey
    /\ IsNone(key_args.keyspace) /\ key_args.column_families = PyList(<<"cf">>)
    /\ key = pending_key

\* C37 (as claimed): a step takes no key out of finished and no key out of
\* failed, and leaves no key in both.
C37_TerminalBucketsAbsorb ==
    [][/\ Keys(finished_repairs) \subseteq Keys(finished_repairs')
       /\ Keys(failed_repairs) \subseteq Keys(failed_repairs')
       /\ Keys(finished_repairs') \cap Keys(failed_repairs') = {}]_vars

\* The integer a formatted token stands for.
Token(v) == IF v.sign = "-" THEN -v.digits ELSE v.digits
\* A slice whose end is not above its start runs through RANGE_MAX into
\* RANGE_MIN.
Wraps(s) == Token(s.end) <= Token(s.start)
WrappingSlices == {n \in 1..Len(yielded) : Wraps(yielded[n])}

\* C38: the slices yielded so far follow one another (each starts where the
\* one before ended), every slice that does not wrap ends above its start, at
\* most one slice wraps, and after a wrap no slice ends above the first
\* slice's start: the ring positions visited advance strictly and no token is
\* in two slices.
C38_SlicesAdvanceWithoutOverlap ==
    gpc # "off" =>
        /\ Cardinality(WrappingSlices) <= 1
        /\ \A n \in 1..(Len(yielded) - 1) : yielded[n + 1].start = yielded[n].end
        /\ \A n \in 1..Len(yielded) :
              /\ Token(yielded[n].start) \in tc.RANGE_MIN..tc.RANGE_MAX
              /\ Token(yielded[n].end) \in tc.RANGE_MIN..tc.RANGE_MAX
              /\ (\E m \in WrappingSlices : m <= n) =>
                    Token(yielded[n].end) <= Token(yielded[1].start)

\* A wrapping range has been cut in three or more slices, with a slice
\* before the one that wraps and a slice after it, and the generator has
\* ended.
C38_Witness ==
    /\ gpc = "done" /\ Len(yielded) >= 3
    /\ \E n \in 2..(Len(yielded) - 1) : Wraps(yielded[n])

\* C39 (as claimed): in a dry run without exclusions no worker has a failed
\* invocation to retry or a repair_fail to make, nothing is in failed, a task
\* that has ended has returned normally with its key in finished, and when
\* the run has ended every slice's key is in finished.
C39_DryRunFinishesEverySlice ==
    (dry_run /\ exclude_step = <<>>) =>
        /\ \A w \in Workers : tries[w] = 0 /\ pc[w] # "repair_fail"
        /\ Keys(failed_repairs) = {}
        /\ \A s \in Slices :
              result[s] # "none" =>
                  result[s] = "ok" /\ WorkerKey(s) \in Keys(finished_repairs)
        /\ pc[Driver] = "exited" =>
              \A s \in Slices : WorkerKey(s) \in Keys(finished_repairs)
====
